---- MODULE Spec2Model ----
(***************************************************************************)
(* Agent Mail client adapter (beads_mcp/mail.py): the configuration        *)
(* resolver, the request core _call_agent_mail with its retry loop, and    *)
(* the six facade operations, as one sequential state machine.  A step of  *)
(* the machine is the code that runs between two blocking points: the      *)
(* HTTP request of one attempt (requests.request) and the backoff sleep    *)
(* (time.sleep).                                                           *)
(*                                                                         *)
(* Encoding of Python values: None in a string-typed place is the string   *)
(* "None", None in an integer-typed place is 0 (real ids are >= 1), an     *)
(* unset environment variable is "" (the code tests `not value`, which     *)
(* treats unset and empty alike).  A JSON mapping is a record whose field  *)
(* t is "map"; a key that is missing and a key holding an empty list are   *)
(* both the empty sequence, because the code reads them with               *)
(* .get(key, []) and tests `not value`.  Any JSON value that is not a      *)
(* mapping and not a list of messages has t = "scalar".                    *)
(***************************************************************************)
EXTENDS Integers, Sequences, FiniteSets, TLC

\* mail.py:18
AGENT_MAIL_RETRIES == 2

\* Message ids the remote service may hold: 1..MaxMsgId.
MaxMsgId == 2
\* Longest inbox page the remote service returns.
MaxInbox == 2
\* Keys one process generates before it stops invoking operations.
MaxDraws == 2

VARIABLES
  env,          \* process environment and OS identity read by _get_config
  op,           \* the facade operation in progress and its arguments
  pc,           \* "idle" | "attempt" | "sleep" | "done"
  call,         \* locals of the running _call_agent_mail invocation
  fetched,      \* mail_read's `result` (the fetch response) while mark-read runs
  calls,        \* the _call_agent_mail invocations of this operation, in order
  netlog,       \* the requests.request calls of this operation, in order
  sleeps,       \* the time.sleep calls of this operation, delays in milliseconds
  lastOutcome,  \* what the most recent requests.request call produced
  nresolve,     \* how many times _get_config ran in this operation
  result,       \* what the operation gave its caller
  uuid,         \* how many keys uuid.uuid4() has generated
  issued,       \* the idempotency keys that requests of earlier operations carried
  toolResult,   \* what the operation's beads_mail_* wrapper gave the framework
  outcomes      \* how each request of this operation ended, where that is recorded

vars == <<env, op, pc, call, fetched, calls, netlog, sleeps, lastOutcome,
          nresolve, result, uuid, issued, toolResult, outcomes>>

----------------------------------------------------------------------------
(* Errors: MailError(code, message, data).                                 *)

ErrorCodes == {"NOT_CONFIGURED", "NOT_FOUND", "CONFLICT", "INVALID_ARGUMENT",
               "UNAVAILABLE", "TIMEOUT", "INTERNAL_ERROR"}

\* MailError: attempt is data["attempt"] (0 when data has no such key),
\* status is data["status"] (0 when absent), body says what else data holds.
MailError(code, attempt, status, body) ==
  [code |-> code, attempt |-> attempt, status |-> status, body |-> body]

\* last_error = None
NoError == MailError("none", 0, 0, "none")

----------------------------------------------------------------------------
(* Configuration resolver.                                                 *)

BaseUrls == {"", "http://mail"}
AgentNames == {"", "agent"}
\* getpass.getuser(): "" stands for the lookup raising
Users == {"", "u"}
RepoName == "repo"

\* os.getcwd()
Cwd == "/work/repo"
\* BEADS_PROJECT_ID ("" when unset)
ProjectIds == {"", "/proj"}
\* what _find_beads_db_in_tree() finds: nothing (""), an absolute path or a
\* path relative to the working directory
Workspaces == {"", "/ws", "ws"}
AbsolutePaths == {Cwd, "/proj", "/ws", "/override"}

\* the environments of a process without project id and workspace
Envs == [BEADS_AGENT_MAIL_URL : BaseUrls, BEADS_AGENT_NAME : AgentNames,
         user : Users, BEADS_PROJECT_ID : {""}, workspace : {""}]

\* the environments of a configured process, with and without project id and
\* workspace
ProjectEnvs == [BEADS_AGENT_MAIL_URL : BaseUrls \ {""},
                BEADS_AGENT_NAME : AgentNames \ {""}, user : Users \ {""},
                BEADS_PROJECT_ID : ProjectIds, workspace : Workspaces]

\* os.path.abspath(path)
Abspath(path) == IF path \in AbsolutePaths THEN path ELSE Cwd \o "/" \o path

\* a _get_project_key that looks for the workspace before the project id
GetProjectKeyWorkspaceFirst(e) ==
  IF e.workspace # "" THEN Abspath(e.workspace)
  ELSE IF e.BEADS_PROJECT_ID # "" THEN e.BEADS_PROJECT_ID
  ELSE Abspath(Cwd)

\* _get_project_key(): BEADS_PROJECT_ID, else the workspace found, else the
\* working directory
GetProjectKey(e) ==
  IF e.BEADS_PROJECT_ID # "" THEN e.BEADS_PROJECT_ID
  ELSE IF e.workspace # "" THEN Abspath(e.workspace)
  ELSE Abspath(Cwd)

\* a facade that does not look at what its caller gave
OrDefault(given, default) == default

\* `given or default`: the caller's value unless it is None or empty
Or(given, default) == IF given # "" THEN given ELSE default

\* a derived name without the repository part
DerivedNameUserOnly(e) == e.user

\* agent_name = f"{user}-{repo_name}": the OS user and the basename of the
\* working directory
DerivedName(e) == e.user \o "-" \o RepoName

\* _get_config with the base-URL check left out
GetConfigNoUrlCheck(e) ==
  IF e.BEADS_AGENT_NAME = ""
  THEN IF e.user = ""
       THEN [err |-> MailError("NOT_CONFIGURED", 0, 0, "none"),
             base_url |-> "", agent_name |-> ""]
       ELSE [err |-> NoError, base_url |-> e.BEADS_AGENT_MAIL_URL,
             agent_name |-> DerivedName(e)]
  ELSE [err |-> NoError, base_url |-> e.BEADS_AGENT_MAIL_URL,
        agent_name |-> e.BEADS_AGENT_NAME]

\* _get_config(): (base_url, agent_name) or a raised MailError
GetConfig(e) ==
  IF e.BEADS_AGENT_MAIL_URL = ""
  THEN [err |-> MailError("NOT_CONFIGURED", 0, 0, "none"),
        base_url |-> "", agent_name |-> ""]
  ELSE IF e.BEADS_AGENT_NAME = ""
       THEN IF e.user = ""
            THEN [err |-> MailError("NOT_CONFIGURED", 0, 0, "none"),
                  base_url |-> "", agent_name |-> ""]
            ELSE [err |-> NoError, base_url |-> e.BEADS_AGENT_MAIL_URL,
                  agent_name |-> DerivedName(e)]
       ELSE [err |-> NoError, base_url |-> e.BEADS_AGENT_MAIL_URL,
             agent_name |-> e.BEADS_AGENT_NAME]

----------------------------------------------------------------------------
(* Remote data: messages and response bodies.                              *)

MsgIds == 1..MaxMsgId
Timestamps == {"None", "2025-01-01T00:00:00Z"}
Importances == {"normal", "high", "urgent"}

Msg(id, read_ts, ack_ts, importance) ==
  [id |-> id, thread_id |-> "thread-abc", from |-> "bob", to |-> <<"agent">>,
   subject |-> "Subject", body_md |-> "Body", created_ts |-> "2024-12-31T00:00:00Z",
   read_ts |-> read_ts, ack_required |-> (ack_ts # "None"), ack_ts |-> ack_ts,
   importance |-> importance]

\* messages a resource read may carry
Messages == {Msg(i, r, a, p) : i \in MsgIds, r \in Timestamps,
                               a \in Timestamps, p \in Importances}

\* messages an inbox page may carry
InboxMessages ==
  {Msg(i, r, "None", "normal") : i \in MsgIds, r \in Timestamps} \cup
  {Msg(1, "None", "None", "urgent")}

SeqsUpTo(S, n) == UNION {[1..k -> S] : k \in 0..n}

\* a parsed JSON mapping; deliveries are the payloads of the delivery records
JsonMap(contents, deliveries, reply) ==
  [t |-> "map", contents |-> contents, deliveries |-> deliveries,
   reply |-> reply, items |-> <<>>]

EmptyMap == JsonMap(<<>>, <<>>, <<>>)

\* a parsed JSON list of messages
JsonList(items) ==
  [t |-> "list", contents |-> <<>>, deliveries |-> <<>>, reply |-> <<>>,
   items |-> items]

\* a parsed JSON value that is neither (a string, a number, null, ...)
JsonScalar ==
  [t |-> "scalar", contents |-> <<>>, deliveries |-> <<>>, reply |-> <<>>,
   items |-> <<>>]

Payload(id) == [id |-> id, thread_id |-> "thread-abc"]

\* the JSON values the remote service may answer a call of `tool` with
JsonFor(tool) ==
  {EmptyMap, JsonScalar} \cup
  CASE tool = "message" -> {JsonMap(<<m>>, <<>>, <<>>) : m \in Messages}
    [] tool = "send_message" ->
         {JsonMap(<<>>, d, <<>>) : d \in SeqsUpTo({Payload(i) : i \in MsgIds}, 2)}
    [] tool = "reply_message" ->
         {JsonMap(<<>>, <<>>, <<Payload(i)>>) : i \in MsgIds}
    [] tool = "fetch_inbox" ->
         {JsonList(s) : s \in SeqsUpTo(InboxMessages, MaxInbox)}
    [] OTHER -> {}

\* response.content / response.json(): content is "empty" (no bytes),
\* "json" (bytes that parse, to `json`) or "garbage" (bytes that do not parse)
Body(content, json) == [content |-> content, json |-> json]

BodiesFor(tool) ==
  {Body("empty", EmptyMap), Body("garbage", EmptyMap)} \cup
  {Body("json", j) : j \in JsonFor(tool)}

Statuses == {200, 204, 400, 404, 409, 422, 500, 503}

\* what one requests.request call produces: a response, or a raised
\* requests.exceptions.Timeout ("timeout"), requests.exceptions.ConnectionError
\* ("connection") or any other exception ("other")
Outcome(kind, status, body) == [kind |-> kind, status |-> status, body |-> body]

\* the bodies of error responses: no bytes, text that is no JSON, a JSON
\* mapping such as {"detail": ...}, or JSON that is no mapping
ErrorBodies ==
  {Body("empty", EmptyMap), Body("garbage", EmptyMap),
   Body("json", EmptyMap), Body("json", JsonScalar)}

OutcomesFor(tool) ==
  {Outcome("response", s, b) : s \in {x \in Statuses : x < 400},
                               b \in BodiesFor(tool)} \cup
  {Outcome("response", s, b) : s \in {x \in Statuses : x >= 400},
                               b \in ErrorBodies} \cup
  {Outcome(k, 0, Body("empty", EmptyMap)) : k \in {"timeout", "connection", "other"}}

\* what the retry loop remembers of an outcome (the body's shape, not its data)
Summary(o) ==
  [kind |-> o.kind, status |-> o.status, content |-> o.body.content,
   t |-> o.body.json.t]

NoOutcome == [kind |-> "none", status |-> 0, content |-> "empty", t |-> "map"]

----------------------------------------------------------------------------
(* Request core: _call_agent_mail.                                         *)

\* how the code of one attempt ends: `return val`, `raise err` (a MailError
\* leaving the function), `last_error = err` (the loop goes on), or an
\* exception that is no MailError leaving the function ("escape")
Returned(v) == [t |-> "return", val |-> v, err |-> NoError]
Raised(e) == [t |-> "raise", val |-> EmptyMap, err |-> e]
Recorded(e) == [t |-> "record", val |-> EmptyMap, err |-> e]
Escaped == [t |-> "escape", val |-> EmptyMap, err |-> NoError]

\* `except Exception` missing: the exception leaves the function
UnexpectedEscapes(attempt) == Escaped

\* except Exception as e: last_error = MailError("INTERNAL_ERROR", ...)
Unexpected(attempt) ==
  Recorded(MailError("INTERNAL_ERROR", attempt + 1, 0, "error"))

\* the success branch without the `if response.content` test
OnSuccessAlwaysParses(body, attempt) ==
  IF body.content = "json" THEN Returned(body.json) ELSE Unexpected(attempt)

\* if response.status_code < 400: return response.json() if response.content else {}
OnSuccess(body, attempt) ==
  IF body.content = "empty" THEN Returned(EmptyMap)
  ELSE IF body.content = "json" THEN Returned(body.json)
  ELSE Unexpected(attempt)   \* response.json() raises, caught by `except Exception`

\* if 400 <= response.status_code < 500: ... raise MailError(...)
\* error_data is response.json(), or {"detail": response.text} when that raises;
\* for 409 and the other codes the message is error_data.get("detail", ...),
\* which raises AttributeError when error_data is no mapping, and that
\* exception is caught by `except Exception` like any other
ClientError(status, body, attempt) ==
  LET error_data == IF body.content = "json" THEN body.json.t ELSE "detail"
  IN IF status = 404
     THEN Raised(MailError("NOT_FOUND", 0, 0, error_data))
     ELSE IF error_data \notin {"map", "detail"}
          THEN Unexpected(attempt)
          ELSE IF status = 409
               THEN Raised(MailError("CONFLICT", 0, 0, error_data))
               ELSE Raised(MailError("INVALID_ARGUMENT", 0, 0, error_data))

\* the body of the try statement and its except clauses, for one attempt
Classify(o, attempt) ==
  CASE o.kind = "response" ->
         IF o.status < 400 THEN OnSuccess(o.body, attempt)
         ELSE IF 400 <= o.status /\ o.status < 500
              THEN ClientError(o.status, o.body, attempt)
              ELSE Recorded(MailError("UNAVAILABLE", attempt + 1, o.status, "status"))
    [] o.kind = "timeout" ->
         Recorded(MailError("TIMEOUT", attempt + 1, 0, "none"))
    [] o.kind = "connection" ->
         Recorded(MailError("UNAVAILABLE", attempt + 1, 0, "error"))
    [] OTHER -> Unexpected(attempt)

\* a loop one iteration longer
InRangeOffByOne(attempt) == attempt < AGENT_MAIL_RETRIES + 2

\* for attempt in range(AGENT_MAIL_RETRIES + 1)
InRange(attempt) == attempt < AGENT_MAIL_RETRIES + 1

\* if attempt < AGENT_MAIL_RETRIES: time.sleep(...)
SleepsAfter(attempt) == attempt < AGENT_MAIL_RETRIES

\* an accumulator that keeps the first error
RecordErrorKeepsFirst(last_error, e) == IF last_error = NoError THEN e ELSE last_error

\* last_error = MailError(...): each failed attempt overwrites the one before
RecordError(last_error, e) == e

\* time.sleep(0.5 * (2**attempt)), in milliseconds
Backoff(attempt) == 500 * (2 ^ attempt)

\* a uuid4 that always gives the same value
Uuid4Fixed(n) == 1

\* str(uuid.uuid4()) as the n-th value generated so far is followed by: a
\* value that was not generated before (keys count from 1, 0 is "no key")
Uuid4(n) == n + 1

\* if method in {"POST", "PUT"} and json_data:
NeedsKey(method, has_body) == method \in {"POST", "PUT"} /\ has_body

\* only_server is history, not a local of the code: whether every request
\* of the call so far was answered with a status >= 500; key is
\* headers["Idempotency-Key"], 0 when the header is not set
NoCall ==
  [idx |-> 0, method |-> "none", tool |-> "none", has_body |-> FALSE,
   attempt |-> 0, last_error |-> NoError, only_server |-> TRUE, key |-> 0]

\* one entry of `calls`: end is "running", "return", "raise" or "escape",
\* val the returned value, err the raised MailError; attempts counts the
\* requests the call made
CallRec(method, tool) ==
  [method |-> method, tool |-> tool, end |-> "running", val |-> EmptyMap,
   err |-> NoError, attempts |-> 0, only_server |-> TRUE]

\* the call in progress ends with r after `attempts` requests
EndCall(s, r, attempts) ==
  [s EXCEPT !.call = NoCall,
            !.calls[Len(s.calls)].end = r.t,
            !.calls[Len(s.calls)].val = r.val,
            !.calls[Len(s.calls)].err = r.err,
            !.calls[Len(s.calls)].attempts = attempts,
            !.calls[Len(s.calls)].only_server = s.call.only_server]

\* _call_agent_mail up to its first request: _get_config(), the headers, and
\* the loop entered; pc "raised" when _get_config raised
EnterCall(e, s, idx, method, tool, has_body) ==
  LET cfg == GetConfig(e)
      s1 == [s EXCEPT !.nresolve = @ + 1,
                      !.calls = Append(@, CallRec(method, tool))]
  IN IF cfg.err # NoError
     THEN [EndCall(s1, Raised(cfg.err), 0) EXCEPT !.pc = "raised"]
     ELSE [s1 EXCEPT !.pc = "attempt",
                     !.uuid = IF NeedsKey(method, has_body) THEN @ + 1 ELSE @,
                     !.call = [idx |-> idx, method |-> method, tool |-> tool,
                               has_body |-> has_body, attempt |-> 0,
                               last_error |-> NoError, only_server |-> TRUE,
                               key |-> IF NeedsKey(method, has_body)
                                       THEN Uuid4(s.uuid) ELSE 0]]

----------------------------------------------------------------------------
(* Operation facade: mail_send, mail_inbox, mail_read, mail_reply,         *)
(* mail_ack, mail_delete.                                                  *)

\* cursor is mail_inbox's `cursor` parameter ("None" when not given)
Op(name, message_id, mark_read, unread_only, limit, cursor) ==
  [name |-> name, message_id |-> message_id, mark_read |-> mark_read,
   unread_only |-> unread_only, limit |-> limit, cursor |-> cursor,
   agent_name |-> "", project_key |-> ""]

\* operation o called with agent_name (sender_name for send) and project_key
\* ("" when the caller gives none)
WithOverrides(o, agent_name, project_key) ==
  [o EXCEPT !.agent_name = agent_name, !.project_key = project_key]

NoOp == Op("none", 0, FALSE, FALSE, 0, "None")

Limits == 0..MaxInbox
Cursors == {"None", "1"}

Ops ==
  {Op("send", 0, FALSE, FALSE, 0, "None")} \cup
  {Op("inbox", 0, FALSE, u, l, "None") : u \in BOOLEAN, l \in Limits} \cup
  {Op("inbox", 0, FALSE, u, MaxInbox, c) :
     u \in BOOLEAN, c \in Cursors \ {"None"}} \cup
  {Op("read", m, mr, FALSE, 0, "None") : m \in MsgIds, mr \in BOOLEAN} \cup
  {Op(n, m, FALSE, FALSE, 0, "None") :
     n \in {"reply", "ack", "delete"}, m \in MsgIds}

\* the "arguments" mapping of the tool call an operation sends (the keys that
\* depend on the configuration or on the operation's parameters); the GET of
\* mail_read has no body
Arguments(e, o, tool) ==
  LET agent == Or(o.agent_name, GetConfig(e).agent_name)
      project == Or(o.project_key, GetProjectKey(e))
  IN CASE tool = "send_message" ->
            [project_key |-> project, sender_name |-> agent]
       [] tool = "fetch_inbox" ->
            [project_key |-> project, agent_name |-> agent,
             limit |-> o.limit, include_bodies |-> FALSE]
       [] tool = "reply_message" ->
            [project_key |-> project, sender_name |-> agent,
             message_id |-> o.message_id]
       [] tool \in {"mark_message_read", "acknowledge_message"} ->
            [project_key |-> project, agent_name |-> agent,
             message_id |-> o.message_id]
       [] OTHER -> [none |-> TRUE]

\* what an operation gives its caller: a returned mapping ("value"), a raised
\* MailError ("error"), or a raised exception of another type ("raw")
NoValue == [none |-> TRUE]
NoResult == [kind |-> "none", val |-> NoValue, err |-> NoError]
Value(v) == [kind |-> "value", val |-> v, err |-> NoError]
Error(e) == [kind |-> "error", val |-> NoValue, err |-> e]
RawError == [kind |-> "raw", val |-> NoValue, err |-> NoError]

Done(s, res) == [s EXCEPT !.pc = "done", !.result = res]

\* an exception of the request core that the operation does not catch
Propagate(s, r) ==
  IF r.t = "raise" THEN Done(s, Error(r.err)) ELSE Done(s, RawError)

\* a mail_send that reads the last delivery
LastDelivery(deliveries) == deliveries[Len(deliveries)]

\* first_delivery = deliveries[0]; payload = first_delivery.get("payload", {})
FirstDelivery(deliveries) == deliveries[1]

\* mail_send after its _call_agent_mail: result.get(...) needs a mapping
mail_send_after(o, s, r) ==
  IF r.t # "return" THEN Propagate(s, r)
  ELSE IF r.val.t # "map" THEN Done(s, RawError)
  ELSE IF r.val.deliveries = <<>>
       THEN Done(s, Error(MailError("INTERNAL_ERROR", 0, 0, "none")))
       ELSE Done(s, Value([message_id |-> FirstDelivery(r.val.deliveries).id,
                           thread_id |->
                             FirstDelivery(r.val.deliveries).thread_id,
                           sent_to |-> Len(r.val.deliveries)]))

\* an inbox that hands the remote's messages on as they are
FormatInboxRaw(msg) == msg

\* one entry of formatted_messages
FormatInbox(msg) ==
  [id |-> msg.id, thread_id |-> msg.thread_id, from |-> msg.from,
   subject |-> msg.subject, created_ts |-> msg.created_ts,
   unread |-> (msg.read_ts = "None"), ack_required |-> msg.ack_required,
   urgent |-> (msg.importance \in {"high", "urgent"}),
   preview |-> msg.body_md]

\* an unread filter that drops nothing
KeepInboxAll(o, msg) == TRUE

\* if unread_only and msg.get("read_ts"): continue
KeepInbox(o, msg) == ~(o.unread_only /\ msg.read_ts # "None")

\* a cursor taken from the first message of the list
NextCursorFirst(o, formatted) ==
  IF formatted # <<>> /\ Len(formatted) >= o.limit
  THEN ToString(formatted[1].id) ELSE "None"

\* next_cursor: set when formatted_messages, the list left after the unread
\* filter, is non-empty and holds at least `limit` entries
NextCursor(o, formatted) ==
  IF formatted # <<>> /\ Len(formatted) >= o.limit
  THEN ToString(formatted[Len(formatted)].id) ELSE "None"

\* mail_inbox after its _call_agent_mail
mail_inbox_after(o, s, r) ==
  IF r.t # "return" THEN Propagate(s, r)
  ELSE LET messages == IF r.val.t = "list" THEN r.val.items ELSE <<>>
           Keep(m) == KeepInbox(o, m)
           kept == SelectSeq(messages, Keep)
           formatted == [i \in 1..Len(kept) |-> FormatInbox(kept[i])]
       IN Done(s, Value([messages |-> formatted,
                         next_cursor |-> NextCursor(o, formatted)]))

\* a mail_read for which only importance "urgent" is urgent
ReadResultUrgentOnly(msg) ==
  [id |-> msg.id, thread_id |-> msg.thread_id, from |-> msg.from,
   to |-> msg.to, subject |-> msg.subject, body |-> msg.body_md,
   created_ts |-> msg.created_ts, ack_required |-> msg.ack_required,
   ack_status |-> (msg.ack_ts # "None"), read_ts |-> msg.read_ts,
   urgent |-> (msg.importance = "urgent")]

\* the mapping mail_read returns for msg
ReadResult(msg) ==
  [id |-> msg.id, thread_id |-> msg.thread_id, from |-> msg.from,
   to |-> msg.to, subject |-> msg.subject, body |-> msg.body_md,
   created_ts |-> msg.created_ts, ack_required |-> msg.ack_required,
   ack_status |-> (msg.ack_ts # "None"), read_ts |-> msg.read_ts,
   urgent |-> (msg.importance \in {"high", "urgent"})]

\* mail_read from `contents = result.get("contents", [])` on
mail_read_finish(s) ==
  IF s.fetched.t # "map" THEN Done(s, RawError)
  ELSE IF s.fetched.contents = <<>>
       THEN Done(s, Error(MailError("NOT_FOUND", 0, 0, "none")))
       ELSE Done(s, Value(ReadResult(s.fetched.contents[1])))

\* a mail_read whose mark-read failure is not caught
mail_read_after_mark_propagates(o, s, r) ==
  IF r.t = "return" THEN mail_read_finish(s) ELSE Propagate(s, r)

\* mail_read after the mark-read _call_agent_mail: `except MailError` logs a
\* warning and goes on; another exception type is not caught
mail_read_after_mark(o, s, r) ==
  IF r.t = "escape" THEN Done(s, RawError) ELSE mail_read_finish(s)

\* a mail_read that marks the message whatever mark_read says
mail_read_after_fetch_always_marks(e, o, s, r) ==
  IF r.t # "return" THEN Propagate(s, r)
  ELSE LET s1 == [s EXCEPT !.fetched = r.val]
           en == EnterCall(e, s1, 2, "POST", "mark_message_read", TRUE)
       IN IF en.pc = "raised"
          THEN mail_read_after_mark(o, en, Raised(GetConfig(e).err))
          ELSE en

\* mail_read after the fetch _call_agent_mail: `if mark_read:` comes first,
\* the contents are looked at after it
mail_read_after_fetch(e, o, s, r) ==
  IF r.t # "return" THEN Propagate(s, r)
  ELSE LET s1 == [s EXCEPT !.fetched = r.val]
       IN IF o.mark_read
          THEN LET en == EnterCall(e, s1, 2, "POST", "mark_message_read", TRUE)
               IN IF en.pc = "raised"
                  THEN mail_read_after_mark(o, en, Raised(GetConfig(e).err))
                  ELSE en
          ELSE mail_read_finish(s1)

\* mail_reply after its _call_agent_mail: reply = result.get("reply", {})
mail_reply_after(o, s, r) ==
  IF r.t # "return" THEN Propagate(s, r)
  ELSE IF r.val.t # "map" THEN Done(s, RawError)
  ELSE IF r.val.reply = <<>>
       THEN Done(s, Value([message_id |-> 0, thread_id |-> "None"]))
       ELSE Done(s, Value([message_id |-> r.val.reply[1].id,
                           thread_id |-> r.val.reply[1].thread_id]))

\* a mail_ack that reports success whatever its call did
mail_ack_after_swallows(o, s, r) == Done(s, Value([acknowledged |-> TRUE]))

\* mail_ack after its _call_agent_mail
mail_ack_after(o, s, r) ==
  IF r.t # "return" THEN Propagate(s, r)
  ELSE Done(s, Value([acknowledged |-> TRUE]))

\* a mail_delete without its `except MailError`
mail_delete_after_propagates(o, s, r) ==
  IF r.t # "return" THEN Propagate(s, r)
  ELSE Done(s, Value([archived |-> TRUE]))

\* mail_delete after its _call_agent_mail: both the try body and the
\* `except MailError` clause return {"archived": True}
mail_delete_after(o, s, r) ==
  IF r.t = "escape" THEN Done(s, RawError)
  ELSE Done(s, Value([archived |-> TRUE]))

\* the operation's code after its idx-th _call_agent_mail ended with r
AfterCall(e, o, s, idx, r) ==
  CASE o.name = "send" -> mail_send_after(o, s, r)
    [] o.name = "inbox" -> mail_inbox_after(o, s, r)
    [] o.name = "read" /\ idx = 1 -> mail_read_after_fetch(e, o, s, r)
    [] o.name = "read" /\ idx # 1 -> mail_read_after_mark(o, s, r)
    [] o.name = "reply" -> mail_reply_after(o, s, r)
    [] o.name = "ack" -> mail_ack_after(o, s, r)
    [] OTHER -> mail_delete_after(o, s, r)

\* the arguments of the operation's first _call_agent_mail
FirstMethod(o) == IF o.name = "read" THEN "GET" ELSE "POST"
FirstTool(o) ==
  CASE o.name = "send" -> "send_message"
    [] o.name = "inbox" -> "fetch_inbox"
    [] o.name = "read" -> "message"
    [] o.name = "reply" -> "reply_message"
    [] o.name = "ack" -> "acknowledge_message"
    [] OTHER -> "mark_message_read"

FreshState ==
  [pc |-> "idle", call |-> NoCall, fetched |-> EmptyMap, calls |-> <<>>,
   nresolve |-> 0, result |-> NoResult, uuid |-> 0]

\* an operation from its entry to the first request of its first
\* _call_agent_mail: the facade's own _get_config() (outside any try, in
\* mail_delete too), then the call
FacadeStart(e, o, u) ==
  LET cfg == GetConfig(e)
      s0 == [FreshState EXCEPT !.nresolve = 1, !.uuid = u]
  IN IF cfg.err # NoError
     THEN Done(s0, Error(cfg.err))
     ELSE LET en == EnterCall(e, s0, 1, FirstMethod(o), FirstTool(o),
                              o.name # "read")
          IN IF en.pc = "raised"
             THEN AfterCall(e, o, en, 1, Raised(GetConfig(e).err))
             ELSE en

----------------------------------------------------------------------------
(* The tool wrappers of mail_tools.py: beads_mail_send, beads_mail_inbox,  *)
(* beads_mail_read, beads_mail_reply, beads_mail_ack, beads_mail_delete.   *)

NoToolResult == [kind |-> "none", val |-> NoValue]

\* e.data of a MailError
ErrorData(err) ==
  [attempt |-> err.attempt, status |-> err.status, body |-> err.body]

\* the mapping a wrapper's `except MailError as e` returns; the text of
\* e.message is not modelled
ErrorValue(name, err) ==
  CASE name = "ack" ->
         [error |-> err.code, acknowledged |-> FALSE, message |-> "e.message"]
    [] name = "delete" ->
         [error |-> err.code, deleted |-> FALSE, message |-> "e.message"]
    [] OTHER ->
         [error |-> err.code, message |-> "e.message", data |-> ErrorData(err)]

\* try: return mail_x(...) / except MailError as e: return {...}; an
\* exception of another type is not caught
ToolResult(name, res) ==
  CASE res.kind = "value" -> [kind |-> "return", val |-> res.val]
    [] res.kind = "error" -> [kind |-> "return", val |-> ErrorValue(name, res.err)]
    [] OTHER -> [kind |-> "raise", val |-> NoValue]

\* what the wrapper of operation o has given its caller when the operation is
\* in state s
Wrapped(o, s) ==
  IF s.pc = "done" THEN ToolResult(o.name, s.result) ELSE NoToolResult

----------------------------------------------------------------------------
(* The retry loop of _call_agent_mail.                                     *)

\* a loop that never gets past an attempt that failed
LoopNextHangs(e, o, s) == [s EXCEPT !.pc = "hang"]

\* `raise last_error` after the loop, or the next iteration
LoopNext(e, o, s) ==
  IF InRange(s.call.attempt + 1)
  THEN [s EXCEPT !.pc = "attempt", !.call.attempt = @ + 1]
  ELSE AfterCall(e, o, EndCall(s, Raised(s.call.last_error), s.call.attempt + 1),
                 s.call.idx, Raised(s.call.last_error))

\* one iteration of the loop from the answer of requests.request to the
\* sleep, the next iteration, or the end of the call
CoreStep(e, o, s, out) ==
  LET c == Classify(out, s.call.attempt)
      s0 == [s EXCEPT !.call.only_server =
                        @ /\ out.kind = "response" /\ out.status >= 500]
  IN IF c.t = "record"
     THEN LET s1 == [s0 EXCEPT !.call.last_error = RecordError(@, c.err)]
          IN IF SleepsAfter(s.call.attempt)
             THEN [s1 EXCEPT !.pc = "sleep"]
             ELSE LoopNext(e, o, s1)
     ELSE AfterCall(e, o, EndCall(s0, c, s.call.attempt + 1), s.call.idx, c)

----------------------------------------------------------------------------
(* The state machine.                                                      *)

Cur ==
  [pc |-> pc, call |-> call, fetched |-> fetched, calls |-> calls,
   nresolve |-> nresolve, result |-> result, uuid |-> uuid]

Becomes(s) ==
  /\ pc' = s.pc
  /\ call' = s.call
  /\ fetched' = s.fetched
  /\ calls' = s.calls
  /\ nresolve' = s.nresolve
  /\ result' = s.result
  /\ uuid' = s.uuid

Init ==
  /\ env \in Envs
  /\ op = NoOp
  /\ pc = "idle"
  /\ call = NoCall
  /\ fetched = EmptyMap
  /\ calls = <<>>
  /\ netlog = <<>>
  /\ sleeps = <<>>
  /\ lastOutcome = NoOutcome
  /\ nresolve = 0
  /\ result = NoResult
  /\ uuid = 0
  /\ issued = {}
  /\ toolResult = NoToolResult
  /\ outcomes = <<>>

\* the environment changes between two operations
SetEnv(e) ==
  /\ pc = "idle"
  /\ e # env
  /\ env' = e
  /\ UNCHANGED <<op, pc, call, fetched, calls, netlog, sleeps, lastOutcome,
                 nresolve, result, uuid, issued, toolResult, outcomes>>

\* a caller invokes operation o; it runs to its first request or to its end
Invoke(o) ==
  /\ pc = "idle"
  /\ op' = o
  /\ LET s == FacadeStart(env, o, uuid)
     IN Becomes(s) /\ toolResult' = Wrapped(o, s)
  /\ UNCHANGED <<env, netlog, sleeps, lastOutcome, issued, outcomes>>

\* how a request ended, in short: an exception by its kind, a response by
\* its status range and, below 400, by whether its body can be used
OutcomeClass(out) ==
  CASE out.kind # "response" -> out.kind
    [] out.status >= 500 -> "5xx"
    [] out.status >= 400 -> "4xx"
    [] out.body.content = "garbage" -> "unparseable"
    [] OTHER -> "success"

\* requests.request of the current attempt answers with out
AttemptCore(out) ==
  /\ pc = "attempt"
  /\ netlog' = Append(netlog, [idx |-> call.idx, method |-> call.method,
                               tool |-> call.tool, attempt |-> call.attempt,
                               key |-> call.key,
                               arguments |->
                                 Arguments(env, op, call.tool)])
  /\ lastOutcome' = Summary(out)
  /\ LET s == CoreStep(env, op, Cur, out)
     IN Becomes(s) /\ toolResult' = Wrapped(op, s)
  /\ UNCHANGED <<env, op, sleeps, issued>>

\* the same, where the way requests ended is not recorded
Attempt(out) ==
  /\ AttemptCore(out)
  /\ UNCHANGED outcomes

\* the same, where it is
AttemptTraced(out) ==
  /\ AttemptCore(out)
  /\ outcomes' = Append(outcomes, OutcomeClass(out))

\* time.sleep returns
Sleep ==
  /\ pc = "sleep"
  /\ sleeps' = Append(sleeps, [idx |-> call.idx, after |-> call.attempt,
                               ms |-> Backoff(call.attempt)])
  /\ LET s == LoopNext(env, op, Cur)
     IN Becomes(s) /\ toolResult' = Wrapped(op, s)
  /\ UNCHANGED <<env, op, netlog, lastOutcome, issued, outcomes>>

\* the caller has the operation's result; the next operation starts afresh
Return ==
  /\ pc = "done"
  /\ op' = NoOp
  /\ Becomes(FreshState)
  /\ toolResult' = NoToolResult
  /\ outcomes' = <<>>
  /\ netlog' = <<>>
  /\ sleeps' = <<>>
  /\ lastOutcome' = NoOutcome
  /\ issued' = {}
  /\ UNCHANGED env

Next ==
  \/ \E e \in Envs : SetEnv(e)
  \/ \E o \in Ops : Invoke(o)
  \/ \E out \in OutcomesFor(call.tool) : Attempt(out)
  \/ Sleep
  \/ Return

Spec == Init /\ [][Next]_vars

----------------------------------------------------------------------------
(* Several operations of one process, one after the other: the keys that   *)
(* uuid4 generated stay generated.                                         *)

\* the operations that make a call with a body, and the one that makes a
\* call without
KeyOps == {o \in Ops : o.name \in {"read", "ack"} /\ o.message_id = 1}

\* a caller invokes an operation while fewer than MaxDraws keys were generated
InvokeNext(o) ==
  /\ uuid < MaxDraws
  /\ Invoke(o)

\* the caller has the operation's result; what the process generated and
\* sent so far is remembered
ReturnNext ==
  /\ pc = "done"
  /\ op' = NoOp
  /\ Becomes([FreshState EXCEPT !.uuid = uuid])
  /\ toolResult' = NoToolResult
  /\ outcomes' = <<>>
  /\ netlog' = <<>>
  /\ sleeps' = <<>>
  /\ lastOutcome' = NoOutcome
  /\ issued' = issued \cup ({netlog[i].key : i \in 1..Len(netlog)} \ {0})
  /\ UNCHANGED env

NextKeys ==
  \/ \E o \in KeyOps : InvokeNext(o)
  \/ \E out \in OutcomesFor(call.tool) : Attempt(out)
  \/ Sleep
  \/ ReturnNext

SpecKeys == Init /\ [][NextKeys]_vars

----------------------------------------------------------------------------
(* Progress: requests.request ends within its timeout, with a response or  *)
(* an exception, and time.sleep returns.                                   *)

LiveOps ==
  {Op("send", 0, FALSE, FALSE, 0, "None"),
   Op("reply", 1, FALSE, FALSE, 0, "None"),
   Op("ack", 1, FALSE, FALSE, 0, "None")}

NextLive ==
  \/ \E o \in LiveOps : Invoke(o)
  \/ \E out \in OutcomesFor(call.tool) : Attempt(out)
  \/ Sleep
  \/ Return

SpecLive ==
  /\ Init
  /\ [][NextLive]_vars
  /\ WF_vars(\E out \in OutcomesFor(call.tool) : Attempt(out))
  /\ WF_vars(Sleep)

----------------------------------------------------------------------------
(* The same operations with the way each request ended recorded.           *)

NextTraced ==
  \/ \E o \in LiveOps : Invoke(o)
  \/ \E out \in OutcomesFor(call.tool) : AttemptTraced(out)
  \/ Sleep
  \/ Return

SpecTraced == Init /\ [][NextTraced]_vars

----------------------------------------------------------------------------
(* Operations called with and without agent_name / project_key, in a       *)
(* process with and without project id and workspace.                      *)

\* the names a caller may give, "" for none
GivenNames == {"", "other"}
GivenProjects == {"", "/override"}

ProjectOps ==
  {WithOverrides(o, a, p) :
     o \in {Op("send", 0, FALSE, FALSE, 0, "None"),
            Op("inbox", 0, FALSE, FALSE, 1, "None"),
            Op("read", 1, TRUE, FALSE, 0, "None"),
            Op("reply", 1, FALSE, FALSE, 0, "None"),
            Op("ack", 1, FALSE, FALSE, 0, "None"),
            Op("delete", 1, FALSE, FALSE, 0, "None")},
     a \in GivenNames, p \in GivenProjects}

InitProject ==
  /\ env \in ProjectEnvs
  /\ op = NoOp
  /\ pc = "idle"
  /\ call = NoCall
  /\ fetched = EmptyMap
  /\ calls = <<>>
  /\ netlog = <<>>
  /\ sleeps = <<>>
  /\ lastOutcome = NoOutcome
  /\ nresolve = 0
  /\ result = NoResult
  /\ uuid = 0
  /\ issued = {}
  /\ toolResult = NoToolResult
  /\ outcomes = <<>>

\* the answers that matter for what is sent: an empty success, a server
\* error, and the three exceptions
ProjectOutcomes(tool) ==
  {out \in OutcomesFor(tool) :
     out.kind = "response"
     => out.status \in {200, 503} /\ out.body.content = "empty"}

NextProject ==
  \/ \E o \in ProjectOps : Invoke(o)
  \/ \E out \in ProjectOutcomes(call.tool) : Attempt(out)
  \/ Sleep
  \/ Return

SpecProject == InitProject /\ [][NextProject]_vars

----------------------------------------------------------------------------
(* Properties.                                                             *)

\* the most recent request, and the _call_agent_mail invocation it belongs to
LastReq == netlog[Len(netlog)]
OutcomeCall == calls[LastReq.idx]
Answered == netlog # <<>> /\ lastOutcome.kind # "none"

\* the requests of the idx-th call
RequestsOf(idx) == SelectSeq(netlog, LAMBDA q : q.idx = idx)

ClientCode(status) ==
  CASE status = 404 -> "NOT_FOUND"
    [] status = 409 -> "CONFLICT"
    [] OTHER -> "INVALID_ARGUMENT"

\* C1: an attempt answered with a status in 400..499 ends the call at once
\* with NOT_FOUND (404), CONFLICT (409) or INVALID_ARGUMENT (other): the call
\* has ended with that error, made no request after this one, and does not
\* sleep.  (The code breaks this for a 409/4xx answer whose JSON body is no
\* mapping.)
C1_ClientErrorEndsCall ==
  (Answered /\ lastOutcome.kind = "response"
     /\ 400 <= lastOutcome.status /\ lastOutcome.status < 500)
  => /\ pc \notin {"sleep", "attempt"} \/ call.idx # LastReq.idx
     /\ OutcomeCall.end = "raise"
     /\ OutcomeCall.err.code = ClientCode(lastOutcome.status)
     /\ OutcomeCall.attempts = LastReq.attempt + 1

\* C2: a call makes at most 1 + AGENT_MAIL_RETRIES requests; a call all of
\* whose requests were answered with a status >= 500 makes exactly
\* 1 + AGENT_MAIL_RETRIES of them and fails with UNAVAILABLE.
C2_AttemptBudget ==
  /\ \A i \in 1..Len(calls) :
       /\ Len(RequestsOf(i)) <= AGENT_MAIL_RETRIES + 1
       /\ calls[i].end # "running" => calls[i].attempts = Len(RequestsOf(i))
       /\ (calls[i].end # "running" /\ calls[i].attempts > 0
             /\ calls[i].only_server)
          => /\ calls[i].attempts = AGENT_MAIL_RETRIES + 1
             /\ calls[i].end = "raise"
             /\ calls[i].err.code = "UNAVAILABLE"
  /\ pc \in {"attempt", "sleep"} => call.attempt <= AGENT_MAIL_RETRIES

C2_Witness ==
  /\ pc = "done"
  /\ calls # <<>>
  /\ calls[1].only_server
  /\ calls[1].attempts = AGENT_MAIL_RETRIES + 1
  /\ calls[1].err.code = "UNAVAILABLE"
  /\ Len(sleeps) = AGENT_MAIL_RETRIES

\* C3: a call that does not return a value ends by raising a MailError whose
\* code is one of the seven; no other exception leaves the request core.
C3_OnlyNormalizedErrors ==
  \A i \in 1..Len(calls) :
    /\ calls[i].end \in {"running", "return", "raise"}
    /\ calls[i].end = "raise" => calls[i].err.code \in ErrorCodes
    /\ calls[i].end # "raise" => calls[i].err = NoError

C3_Witness ==
  /\ Answered
  /\ lastOutcome.kind = "other"
  /\ OutcomeCall.end = "raise"
  /\ OutcomeCall.err.code = "INTERNAL_ERROR"

\* a failed attempt of a retryable class, and the code the claim gives it
RetryableFailure(lo) ==
  \/ lo.kind \in {"timeout", "connection", "other"}
  \/ lo.kind = "response" /\ lo.status >= 500
  \/ lo.kind = "response" /\ lo.status < 400 /\ lo.content = "garbage"

RetryableCode(lo) ==
  CASE lo.kind = "timeout" -> "TIMEOUT"
    [] lo.kind = "connection" -> "UNAVAILABLE"
    [] lo.kind = "response" /\ lo.status >= 500 -> "UNAVAILABLE"
    [] OTHER -> "INTERNAL_ERROR"

\* C4: a call whose 1 + AGENT_MAIL_RETRIES attempts all failed retryably
\* raises the error recorded for the last of them: its code is that of the
\* last attempt's failure and its data.attempt is 1 + AGENT_MAIL_RETRIES.
C4_LastErrorRaised ==
  (Answered /\ OutcomeCall.end # "running"
     /\ OutcomeCall.attempts = AGENT_MAIL_RETRIES + 1
     /\ RetryableFailure(lastOutcome))
  => /\ OutcomeCall.end = "raise"
     /\ OutcomeCall.err.code = RetryableCode(lastOutcome)
     /\ OutcomeCall.err.attempt = AGENT_MAIL_RETRIES + 1

C4_Witness ==
  /\ Answered
  /\ OutcomeCall.end = "raise"
  /\ OutcomeCall.attempts = AGENT_MAIL_RETRIES + 1
  /\ lastOutcome.kind = "timeout"
  /\ OutcomeCall.err.code = "TIMEOUT"
  /\ OutcomeCall.err.attempt = AGENT_MAIL_RETRIES + 1

\* C5 as stated: every attempt answered with a status below 400 ends the
\* call at once with a returned value.
C5_AnySuccessStatusReturns ==
  (Answered /\ lastOutcome.kind = "response" /\ lastOutcome.status < 400)
  => /\ OutcomeCall.end = "return"
     /\ OutcomeCall.attempts = LastReq.attempt + 1

\* C5 as amended: an attempt answered with a status below 400 and a body
\* that is empty or parses as JSON ends the call at once, returning the
\* empty mapping or a JSON value; with a non-empty body that does not parse
\* the attempt is a failure recorded as INTERNAL_ERROR and the call does
\* not return on it.
C5_ParseableSuccessReturns ==
  (Answered /\ lastOutcome.kind = "response" /\ lastOutcome.status < 400)
  => IF lastOutcome.content \in {"empty", "json"}
     THEN /\ OutcomeCall.end = "return"
          /\ OutcomeCall.attempts = LastReq.attempt + 1
          /\ OutcomeCall.val.t = lastOutcome.t
          /\ lastOutcome.content = "empty" => OutcomeCall.val = EmptyMap
     ELSE IF OutcomeCall.end = "running"
          THEN /\ call.last_error.code = "INTERNAL_ERROR"
               /\ call.last_error.attempt = LastReq.attempt + 1
          ELSE /\ OutcomeCall.end = "raise"
               /\ OutcomeCall.err.code = "INTERNAL_ERROR"

C5_Witness ==
  /\ Answered
  /\ lastOutcome.kind = "response"
  /\ lastOutcome.status = 204
  /\ lastOutcome.content = "empty"
  /\ LastReq.attempt = 1
  /\ OutcomeCall.end = "return"
  /\ OutcomeCall.val = EmptyMap

\* C6: with no base URL in the environment every operation ends with
\* NOT_CONFIGURED, and no request is ever made.
C6_NoUrlNoNetwork ==
  env.BEADS_AGENT_MAIL_URL = ""
  => /\ netlog = <<>>
     /\ pc \in {"idle", "done"}
     /\ pc = "done" => /\ result.kind = "error"
                       /\ result.err.code = "NOT_CONFIGURED"

C6_Witness ==
  /\ env.BEADS_AGENT_MAIL_URL = ""
  /\ pc = "done"
  /\ op.name = "delete"
  /\ result.err.code = "NOT_CONFIGURED"
  /\ netlog = <<>>

\* C7 as stated: delete never surfaces an error, it always returns
\* {archived: true}.
C7_DeleteNeverFails ==
  (pc = "done" /\ op.name = "delete") => result = Value([archived |-> TRUE])

\* C7 as amended: once delete's own configuration resolution has succeeded,
\* delete returns {archived: true} whether its mark-read call returns or
\* raises; when that resolution fails, delete raises NOT_CONFIGURED and makes
\* no call.
C7_DeleteSoftFailure ==
  (pc = "done" /\ op.name = "delete")
  => IF GetConfig(env).err = NoError
     THEN /\ Len(calls) = 1
          /\ calls[1].end \in {"return", "raise"}
          /\ result = Value([archived |-> TRUE])
     ELSE /\ calls = <<>>
          /\ result = Error(MailError("NOT_CONFIGURED", 0, 0, "none"))

C7_Witness ==
  /\ pc = "done"
  /\ op.name = "delete"
  /\ Len(calls) = 1
  /\ calls[1].end = "raise"
  /\ calls[1].err.code = "NOT_FOUND"
  /\ result = Value([archived |-> TRUE])

\* the fetch of a read returned a message
FetchedMessage ==
  /\ Len(calls) >= 1
  /\ calls[1].end = "return"
  /\ calls[1].val.t = "map"
  /\ calls[1].val.contents # <<>>

\* C8: a read with mark_read whose fetch returned a message returns that
\* message's result whether the mark-read call returned or raised.
C8_MarkFailureSuppressed ==
  (pc = "done" /\ op.name = "read" /\ op.mark_read /\ FetchedMessage)
  => /\ Len(calls) = 2
     /\ calls[2].end \in {"return", "raise"}
     /\ result = Value(ReadResult(calls[1].val.contents[1]))

C8_Witness ==
  /\ pc = "done"
  /\ op.name = "read"
  /\ op.mark_read
  /\ FetchedMessage
  /\ Len(calls) = 2
  /\ calls[2].end = "raise"
  /\ calls[2].attempts = AGENT_MAIL_RETRIES + 1
  /\ result.kind = "value"

CallShape(c) == <<c.method, c.tool>>

\* C9: a read all of whose calls returned made, with mark_read, exactly the
\* GET fetch and then the mark_message_read POST, every request of the fetch
\* before every request of the mark-read; without mark_read, the fetch alone.
C9_ReadCallSequence ==
  (pc = "done" /\ op.name = "read" /\ calls # <<>>
     /\ \A i \in 1..Len(calls) : calls[i].end = "return")
  => /\ [i \in 1..Len(calls) |-> CallShape(calls[i])] =
          IF op.mark_read
          THEN <<(<<"GET", "message">>), (<<"POST", "mark_message_read">>)>>
          ELSE <<(<<"GET", "message">>)>>
     /\ \A j \in 1..Len(netlog) : \A k \in 1..Len(netlog) :
          j < k => netlog[j].idx <= netlog[k].idx
     /\ \A j \in 1..Len(netlog) :
          /\ netlog[j].method = calls[netlog[j].idx].method
          /\ netlog[j].tool = calls[netlog[j].idx].tool

C9_Witness ==
  /\ pc = "done"
  /\ op.name = "read"
  /\ op.mark_read
  /\ Len(calls) = 2
  /\ calls[1].end = "return"
  /\ calls[2].end = "return"
  /\ Len(netlog) >= 2
  /\ netlog[Len(netlog)].tool = "mark_message_read"

\* C10: in a read with mark_read, when the fetch raised or returned no
\* content (read fails with NOT_FOUND), no mark-read call was made.  (The code
\* makes the mark-read call before it looks at the contents.)
C10_MarkGatedOnContent ==
  (pc = "done" /\ op.name = "read" /\ op.mark_read /\ calls # <<>>
     /\ \/ calls[1].end = "raise"
        \/ /\ calls[1].end = "return"
           /\ calls[1].val.t = "map"
           /\ calls[1].val.contents = <<>>
           /\ result.kind = "error"
           /\ result.err.code = "NOT_FOUND")
  => /\ \A i \in 1..Len(calls) : calls[i].tool # "mark_message_read"
     /\ \A j \in 1..Len(netlog) : netlog[j].tool # "mark_message_read"

\* an inbox that returned a value for a page (a JSON list) of the remote
InboxReturned ==
  /\ pc = "done"
  /\ op.name = "inbox"
  /\ result.kind = "value"
  /\ Len(calls) = 1
  /\ calls[1].end = "return"
  /\ calls[1].val.t = "list"

\* the page the remote returned, before the client's unread filter
RemotePage == calls[1].val.items

\* C11: for a limit of at least 1, next_cursor is set exactly when the number
\* of messages the remote returned, counted before the unread filter, reached
\* limit.  (The code counts the messages left after the filter.)
C11_CursorCountsRemotePage ==
  (InboxReturned /\ op.limit >= 1)
  => ((result.val.next_cursor # "None") <=> (Len(RemotePage) >= op.limit))

IsUnread(m) == m.read_ts = "None"

\* C12: with unread_only the result holds exactly the remote messages without
\* read_ts, in the remote's order, each with unread = TRUE; without it every
\* remote message, each with unread = (read_ts absent).
C12_UnreadFilter ==
  InboxReturned
  => LET expect == IF op.unread_only THEN SelectSeq(RemotePage, IsUnread)
                   ELSE RemotePage
         got == result.val.messages
     IN /\ Len(got) = Len(expect)
        /\ \A i \in 1..Len(got) :
             /\ got[i].id = expect[i].id
             /\ got[i].thread_id = expect[i].thread_id
             /\ got[i].unread = IsUnread(expect[i])
             /\ op.unread_only => got[i].unread

C12_Witness ==
  /\ InboxReturned
  /\ op.unread_only
  /\ Len(RemotePage) = 2
  /\ ~IsUnread(RemotePage[1])
  /\ IsUnread(RemotePage[2])
  /\ Len(result.val.messages) = 1
  /\ result.val.messages[1].id = RemotePage[2].id

\* C13: an inbox called with a cursor sends that cursor, unchanged, in the
\* arguments of its fetch_inbox requests.  (The code leaves it out.)
C13_CursorPassedThrough ==
  \A i \in 1..Len(netlog) :
    (op.name = "inbox" /\ op.cursor # "None" /\ netlog[i].tool = "fetch_inbox")
    => /\ "cursor" \in DOMAIN netlog[i].arguments
       /\ netlog[i].arguments.cursor = op.cursor

\* a send whose send_message call returned a JSON mapping
SendReturned ==
  /\ pc = "done"
  /\ op.name = "send"
  /\ Len(calls) = 1
  /\ calls[1].end = "return"
  /\ calls[1].val.t = "map"

C15_IdempotencyKey ==
  /\ \A i \in 1..Len(netlog) :
       /\ netlog[i].method = "GET" => netlog[i].key = 0
       /\ (netlog[i].method = "POST" /\ netlog[i].arguments # [none |-> TRUE])
          => netlog[i].key # 0
       /\ netlog[i].key # 0 => netlog[i].key \notin issued
  /\ \A i, j \in 1..Len(netlog) :
       /\ netlog[i].idx = netlog[j].idx => netlog[i].key = netlog[j].key
       /\ (netlog[i].idx # netlog[j].idx /\ netlog[i].key # 0)
          => netlog[i].key # netlog[j].key

\* a second keyed call is retried after an earlier operation sent its own key
C15_Witness ==
  /\ issued # {}
  /\ Len(netlog) >= 2
  /\ netlog[Len(netlog)].key # 0
  /\ netlog[Len(netlog)].attempt >= 1
  /\ netlog[Len(netlog) - 1].key = netlog[Len(netlog)].key
  /\ \E i \in 1..Len(netlog) : netlog[i].method = "GET"

\* C16: whenever an operation raised a MailError, its wrapper raised nothing
\* and returned a mapping with exactly the keys error, message and data, error
\* being the code.  (beads_mail_ack and beads_mail_delete return other keys.)
C16_WrapperErrorShape ==
  (pc = "done" /\ result.kind = "error")
  => /\ toolResult.kind = "return"
     /\ DOMAIN toolResult.val = {"error", "message", "data"}
     /\ toolResult.val.error = result.err.code

\* the agent a request names: agent_name, or sender_name for send and reply
AgentOf(req) ==
  IF "agent_name" \in DOMAIN req.arguments THEN req.arguments.agent_name
  ELSE req.arguments.sender_name

\* the base URL is configured and BEADS_AGENT_NAME is not
NameAbsent ==
  /\ op.name # "none"
  /\ env.BEADS_AGENT_MAIL_URL # ""
  /\ env.BEADS_AGENT_NAME = ""

\* C17: with the base URL set and no agent name, an operation of OS user "u"
\* in directory "repo" goes on to its request and names the agent "u-repo";
\* when the user lookup fails the operation ends with NOT_CONFIGURED before
\* any call and any request.
C17_DerivedAgentName ==
  NameAbsent
  => IF env.user # ""
     THEN /\ calls # <<>>
          /\ pc = "attempt" \/ netlog # <<>>
          /\ ~(result.kind = "error" /\ result.err.code = "NOT_CONFIGURED")
          /\ \A i \in 1..Len(netlog) :
               netlog[i].method = "POST" => AgentOf(netlog[i]) = "u-repo"
     ELSE /\ pc = "done"
          /\ result.kind = "error"
          /\ result.err.code = "NOT_CONFIGURED"
          /\ calls = <<>>
          /\ netlog = <<>>

C17_Witness ==
  /\ NameAbsent
  /\ env.user = "u"
  /\ op.name = "inbox"
  /\ pc = "done"
  /\ result.kind = "value"
  /\ netlog[1].arguments.agent_name = "u-repo"

\* a read that returned a value, and the message its fetch carried
ReadReturned == pc = "done" /\ op.name = "read" /\ result.kind = "value"
ReadMessage == calls[1].val.contents[1]

\* what read derives and copies from the fetched message
ReadValues ==
  LET msg == ReadMessage
      v == result.val
  IN /\ v.id = msg.id /\ v.thread_id = msg.thread_id /\ v.from = msg.from
     /\ v.to = msg.to /\ v.subject = msg.subject /\ v.body = msg.body_md
     /\ v.created_ts = msg.created_ts /\ v.read_ts = msg.read_ts
     /\ v.ack_required = msg.ack_required
     /\ v.urgent = (msg.importance \in {"high", "urgent"})
     /\ v.ack_status = (msg.ack_ts # "None")

\* C18 as stated: a successful read returns the eleven Message fields, ack_ts
\* and importance among them, plus urgent and ack_status.
C18_ReadReturnsAllFields ==
  ReadReturned
  => /\ DOMAIN result.val =
          {"id", "thread_id", "from", "to", "subject", "body", "created_ts",
           "read_ts", "ack_required", "ack_ts", "importance", "urgent",
           "ack_status"}
     /\ ReadValues

\* C18: a successful read returns id, thread_id, from, to, subject, body,
\* created_ts, read_ts and ack_required of the fetched message, plus urgent =
\* (importance in {high, urgent}) and ack_status = (ack_ts present); ack_ts
\* and importance themselves are not in the result.
C18_ReadReturnsReshaped ==
  ReadReturned
  => /\ DOMAIN result.val =
          {"id", "thread_id", "from", "to", "subject", "body", "created_ts",
           "read_ts", "ack_required", "urgent", "ack_status"}
     /\ ReadValues

C18_Witness ==
  /\ ReadReturned
  /\ ReadMessage.importance = "high"
  /\ ReadMessage.ack_ts # "None"
  /\ result.val.urgent
  /\ result.val.ack_status

InboxKeys ==
  {"id", "thread_id", "from", "subject", "created_ts", "unread",
   "ack_required", "urgent", "preview"}

\* C19: a returned result has exactly the keys of its operation: send
\* {message_id, thread_id, sent_to}; inbox {messages, next_cursor}, every
\* message with the nine inbox keys; reply {message_id, thread_id}; ack
\* {acknowledged}; delete {archived}, also when its call raised.
C19_ResultKeySets ==
  (pc = "done" /\ result.kind = "value")
  => CASE op.name = "send" ->
            DOMAIN result.val = {"message_id", "thread_id", "sent_to"}
       [] op.name = "inbox" ->
            /\ DOMAIN result.val = {"messages", "next_cursor"}
            /\ \A i \in 1..Len(result.val.messages) :
                 DOMAIN result.val.messages[i] = InboxKeys
       [] op.name = "reply" ->
            DOMAIN result.val = {"message_id", "thread_id"}
       [] op.name = "ack" -> DOMAIN result.val = {"acknowledged"}
       [] op.name = "delete" -> DOMAIN result.val = {"archived"}
       [] OTHER -> TRUE

C19_Witness ==
  /\ InboxReturned
  /\ Len(RemotePage) = 2
  /\ Len(result.val.messages) = 2
  /\ DOMAIN result.val.messages[2] = InboxKeys
  /\ DOMAIN RemotePage[2] # InboxKeys

\* the time.sleep calls of the idx-th call
SleepsOf(idx) == SelectSeq(sleeps, LAMBDA z : z.idx = idx)

\* C20: the sleep after failed attempt n lasts 0.5 * 2^n (500 ms, then
\* 1000 ms), so the delays of a call increase; the code sleeps only after a
\* retryable failure of an attempt that is not the last, never after an
\* answer with a status in 400..499; a call that made requests and ended
\* slept one time fewer than it made requests.  (A 4xx answer whose JSON body
\* is no mapping is followed by a sleep: see C1.)
C20_BackoffSchedule ==
  /\ \A i \in 1..Len(sleeps) :
       /\ sleeps[i].after < AGENT_MAIL_RETRIES
       /\ sleeps[i].after = 0 => sleeps[i].ms = 500
       /\ sleeps[i].after = 1 => sleeps[i].ms = 1000
       /\ \A j \in 1..Len(sleeps) :
            (i < j /\ sleeps[i].idx = sleeps[j].idx)
            => sleeps[i].ms < sleeps[j].ms
  /\ pc = "sleep"
     => /\ call.attempt < AGENT_MAIL_RETRIES
        /\ RetryableFailure(lastOutcome)
  /\ \A i \in 1..Len(calls) :
       (calls[i].end # "running" /\ calls[i].attempts >= 1)
       => Len(SleepsOf(i)) = calls[i].attempts - 1

\* C21: when the one call of send, inbox, reply or ack raised a MailError,
\* the operation raised that same error; ack returned {acknowledged: TRUE}
\* only when its call returned; an operation that returned a value although
\* one of its calls raised is delete, or read with the mark-read call (its
\* second) as the one that raised.
C21_ErrorsSurface ==
  pc = "done"
  => /\ (op.name \in {"send", "inbox", "reply", "ack"} /\ calls # <<>>
           /\ calls[1].end = "raise")
        => /\ Len(calls) = 1
           /\ result.kind = "error"
           /\ result.err = calls[1].err
     /\ (op.name = "ack" /\ result.kind = "value")
        => /\ calls[1].end = "return"
           /\ result.val = [acknowledged |-> TRUE]
     /\ \A i \in 1..Len(calls) :
          (calls[i].end = "raise" /\ result.kind = "value")
          => \/ op.name = "delete"
             \/ op.name = "read" /\ i = 2 /\ calls[i].tool = "mark_message_read"

C21_Witness ==
  /\ pc = "done"
  /\ op.name = "ack"
  /\ calls # <<>>
  /\ calls[1].end = "raise"
  /\ calls[1].attempts = AGENT_MAIL_RETRIES + 1
  /\ calls[1].err.code = "TIMEOUT"
  /\ result.kind = "error"
  /\ result.err.code = "TIMEOUT"

\* how many times this operation logged "BEADS_AGENT_NAME not set, using
\* derived name": once for every _get_config run that derived the name
DerivedWarnings ==
  IF env.BEADS_AGENT_MAIL_URL # "" /\ env.BEADS_AGENT_NAME = "" /\ env.user # ""
  THEN nresolve ELSE 0

\* C22: an operation resolves the configuration once: _get_config has run
\* exactly one time since the operation started, and the derived-name warning
\* was logged at most once.  (The facade runs it once and every
\* _call_agent_mail runs it again.)
C22_ResolvesOnce ==
  op.name # "none"
  => /\ nresolve = 1
     /\ DerivedWarnings <= 1

\* the requests that carry arguments
WithArguments == {i \in 1..Len(netlog) : netlog[i].method = "POST"}

\* C23: the project key an operation sends is the caller's project_key if
\* given, else BEADS_PROJECT_ID if set, else the workspace found (as an
\* absolute path), else the working directory; whatever is set or found, the
\* operation gets as far as its request.
C23_ProjectKeyPriority ==
  /\ \A i \in WithArguments :
       LET sent == netlog[i].arguments.project_key
       IN /\ op.project_key # "" => sent = op.project_key
          /\ (op.project_key = "" /\ env.BEADS_PROJECT_ID # "")
             => sent = env.BEADS_PROJECT_ID
          /\ (op.project_key = "" /\ env.BEADS_PROJECT_ID = ""
                /\ env.workspace = "/ws")
             => sent = "/ws"
          /\ (op.project_key = "" /\ env.BEADS_PROJECT_ID = ""
                /\ env.workspace = "ws")
             => sent = "/work/repo/ws"
          /\ (op.project_key = "" /\ env.BEADS_PROJECT_ID = ""
                /\ env.workspace = "")
             => sent = "/work/repo"
  /\ op.name # "none" => calls # <<>> /\ (pc = "attempt" \/ netlog # <<>>)

C23_Witness ==
  /\ pc = "done"
  /\ op.name = "send"
  /\ op.project_key = ""
  /\ env.BEADS_PROJECT_ID = ""
  /\ env.workspace = "ws"
  /\ netlog # <<>>
  /\ netlog[1].arguments.project_key = "/work/repo/ws"

\* C24: every request with arguments names the agent (the sender for send and
\* reply) and the project the caller gave, and the resolved ones where the
\* caller gave none.
C24_OverridesWin ==
  \A i \in WithArguments :
    /\ AgentOf(netlog[i]) =
         IF op.agent_name # "" THEN op.agent_name
         ELSE GetConfig(env).agent_name
    /\ netlog[i].arguments.project_key =
         IF op.project_key # "" THEN op.project_key ELSE GetProjectKey(env)

C24_Witness ==
  /\ pc = "done"
  /\ op.name = "read"
  /\ op.agent_name = "other"
  /\ op.project_key = "/override"
  /\ env.BEADS_PROJECT_ID = "/proj"
  /\ Len(netlog) >= 2
  /\ netlog[Len(netlog)].tool = "mark_message_read"
  /\ netlog[Len(netlog)].arguments.agent_name = "other"
  /\ netlog[Len(netlog)].arguments.project_key = "/override"

\* the idx-th call of the operation is running
Running(idx) == pc \in {"attempt", "sleep"} /\ call.idx = idx
\* it has ended with a returned value or a raised MailError
Ended(idx) == Len(calls) >= idx /\ calls[idx].end \in {"return", "raise"}

\* C25: a call never makes more than 1 + AGENT_MAIL_RETRIES requests nor
\* sleeps more than AGENT_MAIL_RETRIES times, and a running call eventually
\* ends with a returned value or a raised MailError, whatever the answers.
C25_CallTerminates ==
  /\ [](\A i \in 1..Len(calls) :
          /\ Len(RequestsOf(i)) <= AGENT_MAIL_RETRIES + 1
          /\ Len(SleepsOf(i)) <= AGENT_MAIL_RETRIES)
  /\ Running(1) ~> Ended(1)

C25_Witness ==
  /\ op.name = "reply"
  /\ Ended(1)
  /\ calls[1].end = "return"
  /\ calls[1].attempts = AGENT_MAIL_RETRIES + 1
  /\ Len(SleepsOf(1)) = AGENT_MAIL_RETRIES

\* the failures the claim calls retryable
RetryableClasses == {"5xx", "timeout", "connection", "other", "unparseable"}

\* the requests so far: failures that are retried, then a usable success
SuccessAfterRetryable ==
  /\ outcomes # <<>>
  /\ outcomes[Len(outcomes)] = "success"
  /\ \A j \in 1..(Len(outcomes) - 1) : outcomes[j] \in RetryableClasses

\* C27: a call has returned exactly when its last request was answered with a
\* status below 400 and a parseable or empty body and every request before it
\* failed retryably (status >= 500, timeout, connection failure, unexpected
\* failure); it then made no more than 1 + AGENT_MAIL_RETRIES requests and
\* carries no error.  (A 4xx answer whose JSON body is no mapping is retried
\* too, so a call can return after one: see C1.)
C27_ReturnsIffSuccess ==
  calls # <<>>
  => /\ calls[1].end = "return" <=> SuccessAfterRetryable
     /\ calls[1].end = "return"
        => /\ calls[1].err = NoError
           /\ calls[1].attempts = Len(outcomes)
           /\ Len(outcomes) <= AGENT_MAIL_RETRIES + 1

\* C26: for a limit of at least 1, an inbox result holds no more messages
\* than limit, whatever page the remote returned.  (The code returns every
\* message of the page that passes the unread filter.)
C26_InboxWithinLimit ==
  (InboxReturned /\ op.limit >= 1)
  => Len(result.val.messages) <= op.limit

\* an inbox that returned a value
InboxValue == pc = "done" /\ op.name = "inbox" /\ result.kind = "value"

\* C28: an inbox result with a next_cursor has messages, and the cursor is
\* the string form of the id of the last of them; a result without messages
\* has no cursor, for limit 0 too.
C28_CursorIsLastId ==
  InboxValue
  => LET got == result.val.messages
         cursor == result.val.next_cursor
     IN /\ cursor # "None"
           => /\ got # <<>>
              /\ cursor = ToString(got[Len(got)].id)
        /\ got = <<>> => cursor = "None"

C28_Witness ==
  /\ InboxReturned
  /\ op.unread_only
  /\ Len(RemotePage) = 2
  /\ IsUnread(RemotePage[1])
  /\ IsUnread(RemotePage[2])
  /\ RemotePage[1].id = 2
  /\ RemotePage[2].id = 1
  /\ result.val.next_cursor = "1"

\* the codes of the errors the loop records
RecordedCodes == {"UNAVAILABLE", "TIMEOUT", "INTERNAL_ERROR"}

\* C29: the error recorded for a failed attempt carries that attempt's
\* 1-based index, so a call that ends with a recorded error ends with
\* data.attempt = 1 + AGENT_MAIL_RETRIES; the error for an answer with a
\* status in 400..499 is raised with the response's error body as its data
\* and no attempt index.  (A 4xx answer whose JSON body is no mapping ends in
\* a recorded INTERNAL_ERROR instead: see C1.)
C29_ErrorData ==
  /\ pc = "sleep" => call.last_error.attempt = call.attempt + 1
  /\ (pc = "attempt" /\ call.attempt > 0)
     => call.last_error.attempt = call.attempt
  /\ \A i \in 1..Len(calls) :
       (calls[i].end = "raise" /\ calls[i].attempts >= 1
          /\ calls[i].err.code \in RecordedCodes)
       => /\ calls[i].err.attempt = AGENT_MAIL_RETRIES + 1
          /\ calls[i].attempts = AGENT_MAIL_RETRIES + 1
  /\ (Answered /\ lastOutcome.kind = "response"
        /\ 400 <= lastOutcome.status /\ lastOutcome.status < 500)
     => /\ OutcomeCall.end = "raise"
        /\ OutcomeCall.err.attempt = 0
        /\ OutcomeCall.err.body =
             IF lastOutcome.content = "json" THEN lastOutcome.t ELSE "detail"

====
